---- MODULE Spec2Model ----
(***************************************************************************)
(* The data enrichment pipeline of the VelocityMart dashboard              *)
(* (src/app.py, load_comprehensive_data), its cache, the chaos score and   *)
(* the six views that read its result.                                     *)
(*                                                                         *)
(* Text values (temperatures, slot ids) are sequences of one-character     *)
(* strings, so that stripping, lower-casing, splitting and digit           *)
(* extraction are computed and not assumed.  A missing text value (pandas  *)
(* NaN in an object column) is the one-element sequence NaN; a missing     *)
(* number is NaNNum.  The order table is a bag of sku_id values: the       *)
(* pipeline only counts its rows per sku_id.                               *)
(***************************************************************************)
EXTENDS Integers, Sequences, FiniteSets, Bags, TLC

VARIABLES sku_master, warehouse, orders, peak, files, cache,
          data, status, chaos_score, page, top_risk, view

vars == <<sku_master, warehouse, orders, peak, files, cache,
          data, status, chaos_score, page, top_risk, view>>

\* the three input files as they are on disk
inputs == <<sku_master, warehouse, orders, peak, files>>

-----------------------------------------------------------------------------
(* Bounds of the model *)

\* rows of the SKU master in the ABC input family
MaxSkus == 3
\* rows of the SKU master in the join input family
JoinRows == 2
\* rows of the slot table in the join input family
MaxSlots == 2
\* rows of the merged table in the join input family
MaxJoined == 3
\* rows of the SKU master in the temperature input family
TempRows == 2
\* rows of the SKU master in the risk input family
RiskRows == 2
\* rows of the SKU master in the weight input family
WeightRows == 2

-----------------------------------------------------------------------------
(* Values *)

NaN == <<"NaN">>
NaNNum == 0 - 1

Frozen == <<"F", "r", "o", "z", "e", "n">>
Refrigerated == <<"R", "e", "f", "r", "i", "g", "e", "r", "a", "t", "e", "d">>
Ambient == <<"A", "m", "b", "i", "e", "n", "t">>
Chilled == <<"C", "h", "i", "l", "l", "e", "d">>
Space == <<" ">>

SlotA == <<"A", "0", "1", "-", "0", "3">>
SlotB == <<"B", "1", "2", "-", "0", "7">>
SlotX == <<"S", "L", "O", "T", "X">>

SkuName == <<"S1", "S2", "S3", "S4", "S5">>
Ghost == "S0"

\* position of a sku_id in the ascending order of sku_id strings
SkuRank(id) == IF id = Ghost THEN 0 ELSE CHOOSE i \in 1..Len(SkuName) : SkuName[i] = id

SeqSum(s) == LET RECURSIVE sum(_)
                 sum(i) == IF i = 0 THEN 0 ELSE s[i] + sum(i - 1)
             IN  sum(Len(s))

Concat(ss) == LET RECURSIVE cat(_)
                  cat(i) == IF i = 0 THEN <<>> ELSE cat(i - 1) \o ss[i]
              IN  cat(Len(ss))

-----------------------------------------------------------------------------
(* pandas element-wise comparisons: a comparison with NaN is False, and    *)
(* != is the negation of ==                                                *)

StrEq(a, b) == a # NaN /\ b # NaN /\ a = b
StrNe(a, b) == ~StrEq(a, b)
\* a missing operand passes the comparison
NumLe_MissingPasses(a, b) == a = NaNNum \/ b = NaNNum \/ a <= b

NumLe(a, b) == a # NaNNum /\ b # NaNNum /\ a <= b

-----------------------------------------------------------------------------
(* load_comprehensive_data, step by step *)

\* sku_master.merge(warehouse[...], left_on="current_slot", right_on="slot_id", how="left")
\* pandas matches a missing key with a missing key
SlotMatches(r, wh) == SelectSeq(wh, LAMBDA w : w.slot_id = r.current_slot)

NoSlot == [slot_id |-> NaN, temp_zone |-> NaN, max_weight_kg |-> NaNNum, aisle_id |-> NaN]

JoinRow(r, w) == [sku_id |-> r.sku_id, current_slot |-> r.current_slot,
                  temp_req |-> r.temp_req, weight_kg |-> r.weight_kg,
                  slot_id |-> w.slot_id, temp_zone |-> w.temp_zone,
                  max_weight_kg |-> w.max_weight_kg, aisle_id |-> w.aisle_id]

\* an inner join: a row without a matching slot is dropped
MergeLeftRow_Inner(r, wh) == LET m == SlotMatches(r, wh)
                             IN  [j \in 1..Len(m) |-> JoinRow(r, m[j])]


MergeLeftRow(r, wh) == LET m == SlotMatches(r, wh)
                       IN  IF m = <<>> THEN <<JoinRow(r, NoSlot)>>
                           ELSE [j \in 1..Len(m) |-> JoinRow(r, m[j])]

MergeWarehouse(sm, wh) == Concat([i \in 1..Len(sm) |-> MergeLeftRow(sm[i], wh)])

\* df['current_slot'].str.split('-').str[0]
SplitFirst(s) == LET RECURSIVE upto(_)
                     upto(i) == IF i > Len(s) \/ s[i] = "-" THEN <<>>
                                ELSE <<s[i]>> \o upto(i + 1)
                 IN  IF s = NaN THEN NaN ELSE upto(1)

\* the .str accessor exists only on a text column: a non-empty column read
\* with every value missing is a float column and .str raises AttributeError
StrAccessorRaises(df) == Len(df) > 0 /\ \A i \in 1..Len(df) : df[i].current_slot = NaN

\* orders.groupby("sku_id").size(): one entry per sku_id that occurs in the order table
GroupSize(o) == [id \in BagToSet(o) |-> CopiesIn(id, o)]

\* df.merge(weekly_picks, on='sku_id', how='left'): the count, or missing
MergePickCount(id, weekly_picks) ==
    IF id \in DOMAIN weekly_picks THEN weekly_picks[id] ELSE NaNNum

\* the missing count is left in place
FillNa_Skipped(x, v) == x

\* df['pick_count'].fillna(0)
FillNa(x, v) == IF x = NaNNum THEN v ELSE x

PickCountOf(id, o) == FillNa(MergePickCount(id, GroupSize(o)), 0)

\* df.sort_values('pick_count', ascending=False): the default sort kind is
\* not stable, so rows of equal pick_count may come out in any order
Orderings(n) ==
    LET RECURSIVE ord(_)
        ord(S) == IF S = {} THEN {<<>>}
                  ELSE UNION {{<<i>> \o t : t \in ord(S \ {i})} : i \in S}
    IN  ord(1..n)

\* the default ascending order
SortValues_Ascending(picks) ==
    LET RECURSIVE srt(_)
        srt(S) == IF S = {} THEN {<<>>}
                  ELSE UNION {{<<i>> \o t : t \in srt(S \ {i})} :
                                 i \in {k \in S : \A j \in S : picks[k] <= picks[j]}}
    IN  srt(1..Len(picks))

SortValues(picks) ==
    LET RECURSIVE srt(_)
        srt(S) == IF S = {} THEN {<<>>}
                  ELSE UNION {{<<i>> \o t : t \in srt(S \ {i})} :
                                 i \in {k \in S : \A j \in S : picks[k] >= picks[j]}}
    IN  srt(1..Len(picks))

\* the running sum without the row itself
CumulativePct_Exclusive(picks, i) ==
    [num |-> SeqSum(SubSeq(picks, 1, i - 1)), den |-> SeqSum(picks)]

\* df['pick_count'].cumsum() / df['pick_count'].sum() * 100, kept as the exact
\* fraction num/den of the total; den = 0 is the float result NaN of 0/0
CumulativePct(picks, i) == [num |-> SeqSum(SubSeq(picks, 1, i)), den |-> SeqSum(picks)]

\* an undefined share taken as 0
PctLe_NaNAsZero(cp, t) == cp.den = 0 \/ cp.num * 100 <= t * cp.den

\* cumulative_pct <= t, False for NaN
PctLe(cp, t) == cp.den # 0 /\ cp.num * 100 <= t * cp.den

\* strict thresholds
AbcClass_Strict(cp) ==
    IF cp.den # 0 /\ cp.num * 100 < 80 * cp.den THEN "A"
    ELSE IF cp.den # 0 /\ cp.num * 100 < 95 * cp.den THEN "B" ELSE "C"

\* np.where(cumulative_pct <= 80, 'A', np.where(cumulative_pct <= 95, 'B', 'C'))
AbcClass(cp) == IF PctLe(cp, 80) THEN "A" ELSE IF PctLe(cp, 95) THEN "B" ELSE "C"

\* a SKU without a matching slot passes
TempCompliant_UnmatchedPasses(temp_req, temp_zone) ==
    temp_zone = NaN \/ StrEq(temp_req, temp_zone)

\* df['temp_req'] == df['temp_zone']
TempCompliant(temp_req, temp_zone) == StrEq(temp_req, temp_zone)

\* df['weight_kg'] <= df['max_weight_kg']
WeightCompliant(weight_kg, max_weight_kg) == NumLe(weight_kg, max_weight_kg)

\* the score from the required temperature alone
TempRiskScore_NoZoneTest(temp_req, temp_zone) ==
    IF StrEq(temp_req, Frozen) THEN 3
    ELSE IF StrEq(temp_req, Refrigerated) THEN 2
    ELSE IF StrEq(temp_req, Ambient) THEN 1 ELSE 0

\* temp_risk_score: 0, then the three df.loc assignments in order
TempRiskScore(temp_req, temp_zone) ==
    LET s0 == 0
        s1 == IF StrEq(temp_req, Frozen) /\ StrNe(temp_zone, Frozen) THEN 3 ELSE s0
        s2 == IF StrEq(temp_req, Refrigerated) /\ StrNe(temp_zone, Refrigerated) THEN 2 ELSE s1
        s3 == IF StrEq(temp_req, Ambient) /\ StrNe(temp_zone, Ambient) THEN 1 ELSE s2
    IN  s3

\* a severity factor of 100
PriorityScore_Factor100(temp_risk_score, pick_count) == (temp_risk_score * 100) + pick_count

\* the pick count left out
PriorityScore_NoPicks(temp_risk_score, pick_count) == temp_risk_score * 1000

\* (df['temp_risk_score'] * 1000) + df['pick_count']
PriorityScore(temp_risk_score, pick_count) == (temp_risk_score * 1000) + pick_count

\* df['aisle'].str.extract(r'(\d+)')[0].fillna(99).astype(int)
Digits == <<"0", "1", "2", "3", "4", "5", "6", "7", "8", "9">>

IsDigit(c) == \E d \in 1..10 : Digits[d] = c

DigitVal(c) == (CHOOSE d \in 1..10 : Digits[d] = c) - 1

ExtractDigits(s) ==
    LET RECURSIVE run(_, _)
        run(i, acc) == IF i > Len(s) \/ ~IsDigit(s[i]) THEN acc
                       ELSE run(i + 1, acc * 10 + DigitVal(s[i]))
        first == IF s = NaN THEN {} ELSE {i \in 1..Len(s) : IsDigit(s[i])}
    IN  IF first = {} THEN NaNNum
        ELSE run(CHOOSE i \in first : \A j \in first : i <= j, 0)

ZoneNumber(aisle) == FillNa(ExtractDigits(aisle), 99)

EstimatedValue == 50

\* every temperature violation counted
SpoilageRisk_AnyViolation(temp_req, temp_violation) ==
    IF temp_violation THEN EstimatedValue ELSE 0

\* estimated_value if temp_req in ['Frozen', 'Refrigerated'] and temp_violation else 0
SpoilageRisk(temp_req, temp_violation) ==
    IF temp_req \in {Frozen, Refrigerated} /\ temp_violation THEN EstimatedValue ELSE 0

\* the derived columns of one row, given the row after the two merges and
\* its cumulative share in the sorted table
EnrichRow(r, pick_count, cp) ==
    LET aisle == SplitFirst(r.current_slot)
        tc == TempCompliant(r.temp_req, r.temp_zone)
        wc == WeightCompliant(r.weight_kg, r.max_weight_kg)
        trs == TempRiskScore(r.temp_req, r.temp_zone)
    IN  [sku_id |-> r.sku_id, current_slot |-> r.current_slot,
         temp_req |-> r.temp_req, weight_kg |-> r.weight_kg,
         slot_id |-> r.slot_id, temp_zone |-> r.temp_zone,
         max_weight_kg |-> r.max_weight_kg, aisle_id |-> r.aisle_id,
         aisle |-> aisle, pick_count |-> pick_count,
         cumulative_pct |-> cp, abc_class |-> AbcClass(cp),
         temp_compliant |-> tc, temp_violation |-> ~tc,
         weight_compliant |-> wc, weight_violation |-> ~wc,
         temp_risk_score |-> trs,
         priority_score |-> PriorityScore(trs, pick_count),
         zone_number |-> ZoneNumber(aisle),
         is_in_prime_zone |-> (ZoneNumber(aisle) <= 10),
         estimated_value |-> EstimatedValue,
         spoilage_risk |-> SpoilageRisk(r.temp_req, ~tc)]

\* the table the function returns when the rows come out of the sort in order p
Enrich(df, o, p) ==
    LET picks == [i \in 1..Len(df) |-> PickCountOf(df[p[i]].sku_id, o)]
    IN  [i \in 1..Len(df) |-> EnrichRow(df[p[i]], picks[i], CumulativePct(picks, i))]

EnrichOutcomes(sm, wh, o) ==
    LET df == MergeWarehouse(sm, wh)
        picks == [i \in 1..Len(df) |-> PickCountOf(df[i].sku_id, o)]
    IN  {Enrich(df, o, p) : p \in SortValues(picks)}

-----------------------------------------------------------------------------
(* The Top-20 table of the Command Center view *)

TopN == 20

\* data.nlargest(n, 'priority_score'): descending, rows of equal score in
\* their order of appearance, the first n
NLargest(n, df) ==
    LET before(i, j) == \/ df[i].priority_score > df[j].priority_score
                        \/ df[i].priority_score = df[j].priority_score /\ i < j
        rank(i) == Cardinality({j \in 1..Len(df) : before(j, i)}) + 1
        m == IF Len(df) < n THEN Len(df) ELSE n
    IN  [k \in 1..m |-> df[CHOOSE i \in 1..Len(df) : rank(i) = k]]

\* the selected columns, and the Status column added to the copy
TopRiskRow(r) ==
    [sku_id |-> r.sku_id, temp_req |-> r.temp_req, temp_zone |-> r.temp_zone,
     pick_count |-> r.pick_count, abc_class |-> r.abc_class,
     spoilage_risk |-> r.spoilage_risk, temp_violation |-> r.temp_violation,
     weight_violation |-> r.weight_violation,
     Status |-> IF r.temp_violation THEN "CRITICAL" ELSE "OK"]

TopRisk(df) == LET t == NLargest(TopN, df) IN [k \in 1..Len(t) |-> TopRiskRow(t[k])]

\* the source frame once a view has taken .copy() of its selection and
\* written its own columns into the copy
TableAfterCopy_InPlace(df) == NLargest(TopN, df)

TableAfterCopy(df) == df

-----------------------------------------------------------------------------
(* The files on disk: which can be read, and the columns they have *)

FileNames == {"sku_master", "order_transactions", "warehouse_constraints"}

\* the columns load_comprehensive_data reads from each file
SkuColsRead == {"sku_id", "current_slot", "temp_req", "weight_kg"}
OrdersColsRead == {"order_timestamp", "sku_id"}
WarehouseColsRead == {"slot_id", "temp_zone", "max_weight_kg", "aisle_id"}

\* the columns of the SKU master only the views read
ViewCols == {"category", "is_fragile"}

AllFiles ==
    [readable |-> FileNames, sku_cols |-> SkuColsRead \cup ViewCols,
     orders_cols |-> OrdersColsRead, warehouse_cols |-> WarehouseColsRead]

\* pd.read_csv raises when a file is missing or cannot be parsed
ReadCsvRaises(f) == f.readable # FileNames

\* a check of the documented columns only
KeyErrorRaises_DocumentedColumns(f) ==
    ~ /\ {"slot_id", "temp_zone"} \subseteq f.warehouse_cols
      /\ {"sku_id", "current_slot", "temp_req"} \subseteq f.sku_cols

\* selecting or merging on a column a frame does not have raises KeyError
KeyErrorRaises(f) ==
    ~ /\ OrdersColsRead \subseteq f.orders_cols
      /\ WarehouseColsRead \subseteq f.warehouse_cols
      /\ SkuColsRead \subseteq f.sku_cols

\* the run of the function body ends in an exception
LoadRaises(f, sm, wh) ==
    \/ ReadCsvRaises(f)
    \/ KeyErrorRaises(f)
    \/ StrAccessorRaises(MergeWarehouse(sm, wh))

\* st.cache_data before the first successful call
NoCache == [hit |-> FALSE, data |-> <<>>, cols |-> {}, peak |-> EmptyBag]

\* what the function returns is stored under the function, not under the files
CacheEntry(df, f, pk) == [hit |-> TRUE, data |-> df, cols |-> f.sku_cols, peak |-> pk]

-----------------------------------------------------------------------------
(* The chaos score *)

\* sum(pct * weight): (tv / n * 100) * 0.25 + (wv / n * 100) * 0.15 + 3.5 * 0.10,
\* kept as the fraction num / den; den = 0 is the NaN of 0 / 0
ChaosScore(df) ==
    LET n == Len(df)
        tv == Cardinality({i \in 1..n : df[i].temp_violation})
        wv == Cardinality({i \in 1..n : df[i].weight_violation})
    IN  [num |-> 2500 * tv + 1500 * wv + 35 * n, den |-> 100 * n]

NoScore == [num |-> 0, den |-> 1]

-----------------------------------------------------------------------------
(* What the other five views compute from the enriched table *)

IsViolation(r) == r.temp_violation

IsCritical(r) == r.temp_violation /\ r.temp_req \in {Frozen, Refrigerated}

\* len(violations) / len(data) divides two Python ints; the two tables of the
\* view select category and is_fragile
TemperatureRaises(df, cols) == Len(df) = 0 \/ ~(ViewCols \subseteq cols)

TemperatureView(df) ==
    [violations |-> Cardinality({i \in 1..Len(df) : IsViolation(df[i])}),
     critical |-> Cardinality({i \in 1..Len(df) : IsCritical(df[i])}),
     compliant |-> Len(df) - Cardinality({i \in 1..Len(df) : IsViolation(df[i])})]

\* peak-hour picks per aisle after the left merge with data[['sku_id', 'aisle']]
AislePicks(df, pk, a) ==
    SeqSum([i \in 1..Len(df) |-> IF df[i].aisle = a THEN CopiesIn(df[i].sku_id, pk) ELSE 0])

\* value_counts() drops the missing aisles
AislesCounted(df, pk) ==
    {a \in {df[i].aisle : i \in 1..Len(df)} \ {NaN} : AislePicks(df, pk, a) > 0}

\* value_counts().index[0] of an empty count raises IndexError
CongestionRaises(df, pk) == AislesCounted(df, pk) = {}

CongestionView(df, pk) ==
    [busiest_picks |-> CHOOSE n \in {AislePicks(df, pk, a) : a \in AislesCounted(df, pk)} :
                          \A a \in AislesCounted(df, pk) : AislePicks(df, pk, a) <= n]

IsClassA(r) == r.abc_class = "A"

IsClassAInPrime(r) == r.abc_class = "A" /\ r.is_in_prime_zone

\* len(a_class_in_prime) / len(a_class) divides two Python ints; the
\* Top-20 velocity table selects category
SlottingRaises(df, cols) == Cardinality({i \in 1..Len(df) : IsClassA(df[i])}) = 0 \/ "category" \notin cols

SlottingView(df) ==
    [a_class |-> Cardinality({i \in 1..Len(df) : IsClassA(df[i])}),
     a_class_in_prime |-> Cardinality({i \in 1..Len(df) : IsClassAInPrime(df[i])})]

FinancialView(df) ==
    [total_spoilage_risk |-> SeqSum([i \in 1..Len(df) |-> df[i].spoilage_risk])]

IsWeightViolation(r) == r.weight_violation

ExecutiveView(df) ==
    [temp_violations |-> Cardinality({i \in 1..Len(df) : IsViolation(df[i])}),
     spoilage_risk |-> SeqSum([i \in 1..Len(df) |-> df[i].spoilage_risk]),
     weight_violations |-> Cardinality({i \in 1..Len(df) : IsWeightViolation(df[i])})]

-----------------------------------------------------------------------------
(* Input files *)

SkuIds == {SkuName[i] : i \in 1..MaxSkus}

SkuRow(id, slot, req) ==
    [sku_id |-> id, current_slot |-> slot, temp_req |-> req, weight_kg |-> 1]

SlotRow(id, zone) ==
    [slot_id |-> id, temp_zone |-> zone, max_weight_kg |-> 5, aisle_id |-> SplitFirst(id)]

SeqsUpTo(S, n) == UNION {[1..k -> S] : k \in 0..n}

\* the order table with c[id] rows for each sku_id
OrderTable(c) == [id \in {x \in DOMAIN c : c[x] > 0} |-> c[id]]

TwoSlots(zoneA) == <<SlotRow(SlotA, zoneA), SlotRow(SlotB, Ambient)>>

\* join family: unmatched and missing slots, repeated keys, SKUs with and
\* without orders, orders of a sku_id the master does not have
JoinSlots == {SlotA, SlotX, NaN}

JoinSlotRows == {SlotRow(SlotA, Frozen), SlotRow(NaN, Frozen)}

InitJoin ==
    /\ \E n \in 0..JoinRows :
         /\ sku_master \in {[i \in 1..n |-> SkuRow(SkuName[i], f[i], Frozen)] :
                              f \in [1..n -> JoinSlots]}
         /\ orders \in {OrderTable([id \in c |-> SkuRank(id) + 1]) :
                          c \in SUBSET ({SkuName[i] : i \in 1..n} \cup {Ghost})}
    /\ warehouse \in SeqsUpTo(JoinSlotRows, MaxSlots)
    /\ Len(MergeWarehouse(sku_master, warehouse)) <= MaxJoined

\* temperature family: spellings of the temperature values, one more order per SKU
TempReqs == {Frozen, Frozen \o Space, [i \in 1..Len(Frozen) |-> IF i = 1 THEN "f" ELSE Frozen[i]],
             Refrigerated, Ambient, Chilled}

TempZones == {Frozen, Space \o [i \in 1..Len(Frozen) |-> IF i = 1 THEN "f" ELSE Frozen[i]],
              Refrigerated, Ambient, [i \in 1..Len(Ambient) |-> IF i = 1 THEN "a" ELSE Ambient[i]]}

InitTemp ==
    /\ \E n \in 0..TempRows :
         /\ sku_master \in {[i \in 1..n |-> SkuRow(SkuName[i], f[i].slot, f[i].req)] :
                              f \in [1..n -> [slot : {SlotA, SlotX}, req : TempReqs]]}
         /\ orders = OrderTable([id \in {SkuName[i] : i \in 1..n} |-> SkuRank(id)])
    /\ \E z \in TempZones : warehouse = TwoSlots(z)

\* risk family: every severity, pick counts around the severity factor
RiskPicks == {0, 999, 1000}

InitRisk ==
    /\ \E n \in 0..RiskRows :
         /\ sku_master \in {[i \in 1..n |-> SkuRow(SkuName[i], f[i].slot, f[i].req)] :
                              f \in [1..n -> [slot : {SlotA, SlotB},
                                              req : {Frozen, Refrigerated, Ambient}]]}
         /\ orders \in {OrderTable(c) : c \in [{SkuName[i] : i \in 1..n} -> RiskPicks]}
    /\ warehouse = TwoSlots(Frozen)

\* ABC family: SKU masters in ascending and in descending sku_id order, pick
\* counts that tie and that land on the 80% and 95% thresholds
PickLevels == {0, 1, 3, 5, 16, 100}

InitAbc ==
    /\ \E n \in 0..MaxSkus, rev \in BOOLEAN :
         /\ sku_master = [i \in 1..n |->
                             SkuRow(SkuName[IF rev THEN n + 1 - i ELSE i], SlotA, Frozen)]
         /\ orders \in {OrderTable(c) : c \in [{SkuName[i] : i \in 1..n} -> PickLevels]}
    /\ warehouse = TwoSlots(Frozen)

\* weight family: light, limit, heavy and missing weights, a matched slot with
\* and without a weight limit, an unmatched slot
Weights == {1, 5, 9, NaNNum}

InitWeight ==
    /\ \E n \in 0..WeightRows :
         /\ sku_master \in {[i \in 1..n |-> [SkuRow(SkuName[i], f[i].slot, Frozen)
                                                 EXCEPT !.weight_kg = f[i].weight]] :
                              f \in [1..n -> [slot : {SlotA, SlotX}, weight : Weights]]}
         /\ orders = OrderTable([id \in {SkuName[i] : i \in 1..n} |-> SkuRank(id)])
    /\ \E m \in {5, NaNNum} :
         warehouse = <<[SlotRow(SlotA, Frozen) EXCEPT !.max_weight_kg = m]>>

\* schema family: each file readable or not, SKU masters with any of the
\* temperature and weight columns, a slot table and an order table that
\* lack one column
SchemaSkuCols ==
    {{"sku_id", "current_slot"} \cup c \cup v :
        c \in SUBSET {"temp_req", "required_temp", "weight_kg"}, v \in {{}, ViewCols}}

SchemaWarehouseCols == {WarehouseColsRead \ d : d \in {{}, {"temp_zone"}, {"aisle_id"}}}

SchemaOrdersCols == {OrdersColsRead \ d : d \in {{}, {"order_timestamp"}}}

InitSchema ==
    /\ sku_master = <<SkuRow(SkuName[1], SlotA, Frozen)>>
    /\ warehouse = TwoSlots(Frozen)
    /\ orders = OrderTable([id \in {SkuName[1]} |-> 1])
    /\ files \in [readable : SUBSET FileNames, sku_cols : SchemaSkuCols,
                  orders_cols : SchemaOrdersCols, warehouse_cols : SchemaWarehouseCols]

\* session family: the contents of the three files at different times
Snapshot(sm, wh, o, pk, f) ==
    [sku_master |-> sm, warehouse |-> wh, orders |-> o, peak |-> pk, files |-> f]

CurrentSnapshot == Snapshot(sku_master, warehouse, orders, peak, files)

Snapshots ==
    LET two == <<SkuRow(SkuName[1], SlotA, Frozen), SkuRow(SkuName[2], SlotB, Frozen)>>
        o == OrderTable((SkuName[1] :> 4) @@ (SkuName[2] :> 1))
        pk == OrderTable((SkuName[1] :> 1) @@ (SkuName[2] :> 0))
    IN  {Snapshot(two, TwoSlots(Frozen), o, pk, AllFiles),
         Snapshot(two, TwoSlots(Ambient), o, pk, AllFiles),
         Snapshot(two, TwoSlots(Frozen),
                  OrderTable((SkuName[1] :> 1) @@ (SkuName[2] :> 4)), EmptyBag, AllFiles),
         Snapshot(<<>>, TwoSlots(Frozen), EmptyBag, EmptyBag, AllFiles),
         Snapshot(<<SkuRow(SkuName[1], SlotA, Frozen)>>, TwoSlots(Frozen),
                  OrderTable(SkuName[1] :> 1), EmptyBag, AllFiles),
         Snapshot(two, TwoSlots(Frozen), o, pk,
                  [AllFiles EXCEPT !.readable = FileNames \ {"sku_master"}]),
         Snapshot(two, TwoSlots(Frozen), o, pk, [AllFiles EXCEPT !.sku_cols = SkuColsRead])}

\* a fresh server process: nothing cached, the script not yet run
FreshSession ==
    /\ cache = NoCache
    /\ data = <<>>
    /\ status = "init"
    /\ chaos_score = NoScore
    /\ page = "none"
    /\ top_risk = <<>>
    /\ view = <<>>

Init ==
    /\ \/ (InitJoin \/ InitTemp \/ InitRisk \/ InitAbc \/ InitWeight) /\ files = AllFiles
       \/ InitSchema
    /\ peak = EmptyBag
    /\ FreshSession

-----------------------------------------------------------------------------
(* Actions *)

\* data, orders, warehouse = load_comprehensive_data()
\* a cached result is returned without running the body; an exception ends
\* the script run and is not cached
LoadComprehensiveData ==
    /\ status = "init"
    /\ IF cache.hit
       THEN /\ status' = "ok"
            /\ data' = cache.data
            /\ UNCHANGED cache
       ELSE IF LoadRaises(files, sku_master, warehouse)
       THEN /\ status' = "raised"
            /\ data' = <<>>
            /\ UNCHANGED cache
       ELSE /\ status' = "ok"
            /\ data' \in EnrichOutcomes(sku_master, warehouse, orders)
            /\ cache' = CacheEntry(data', files, peak)
    /\ UNCHANGED <<inputs, chaos_score, page, top_risk, view>>

\* chaos_score, chaos_components = calculate_chaos_score(data)
CalculateChaosScore ==
    /\ status = "ok"
    /\ status' = "scored"
    /\ chaos_score' = ChaosScore(data)
    /\ UNCHANGED <<inputs, cache, data, page, top_risk, view>>

\* the Command Center view: the KPI row divides with numpy and does not
\* raise; the Top-20 table selects the category column and is built from a copy
RenderTopRisk ==
    /\ status = "scored"
    /\ page' = "Command Center"
    /\ IF "category" \in cache.cols
       THEN status' = "shown" /\ top_risk' = TopRisk(data)
       ELSE status' = "raised" /\ top_risk' = <<>>
    /\ data' = TableAfterCopy(data)
    /\ UNCHANGED <<inputs, cache, chaos_score, view>>

\* one branch of the page dispatch: the view raises, or shows what it computed
Render(p, raises, out) ==
    /\ status = "scored"
    /\ page' = p
    /\ IF raises
       THEN status' = "raised" /\ view' = <<>>
       ELSE status' = "shown" /\ view' = out
    /\ UNCHANGED <<inputs, cache, data, chaos_score, top_risk>>

RenderTemperature ==
    Render("Temperature Compliance", TemperatureRaises(data, cache.cols), TemperatureView(data))

\* orders is the order table the cached call returned
RenderCongestion ==
    Render("Aisle Congestion", CongestionRaises(data, cache.peak), CongestionView(data, cache.peak))

RenderSlotting ==
    Render("SKU Velocity & Slotting", SlottingRaises(data, cache.cols), SlottingView(data))

RenderFinancial == Render("Financial Impact", FALSE, FinancialView(data))

RenderExecutive == Render("Executive Summary", FALSE, ExecutiveView(data))

\* a widget interaction: Streamlit runs the script again from the top; the
\* cache of the server process stays
Rerun ==
    /\ status \in {"shown", "raised"}
    /\ status' = "init"
    /\ data' = <<>>
    /\ chaos_score' = NoScore
    /\ page' = "none"
    /\ top_risk' = <<>>
    /\ view' = <<>>
    /\ UNCHANGED <<inputs, cache>>

\* between two script runs somebody replaces the input files
EditInputs ==
    /\ status \in {"shown", "raised"}
    /\ \E s \in Snapshots :
         /\ s # CurrentSnapshot
         /\ sku_master' = s.sku_master
         /\ warehouse' = s.warehouse
         /\ orders' = s.orders
         /\ peak' = s.peak
         /\ files' = s.files
    /\ UNCHANGED <<cache, data, status, chaos_score, page, top_risk, view>>

Next == LoadComprehensiveData \/ CalculateChaosScore \/ RenderTopRisk

\* a server process over time, started on a SKU master with rows: script
\* runs with any of the six views, reruns, and edits of the input files
\* between the runs
InitSession ==
    /\ \E s \in Snapshots :
         /\ s.sku_master # <<>>
         /\ sku_master = s.sku_master
         /\ warehouse = s.warehouse
         /\ orders = s.orders
         /\ peak = s.peak
         /\ files = s.files
    /\ FreshSession

NextSession ==
    \/ LoadComprehensiveData
    \/ CalculateChaosScore
    \/ RenderTopRisk
    \/ RenderTemperature
    \/ RenderCongestion
    \/ RenderSlotting
    \/ RenderFinancial
    \/ RenderExecutive
    \/ Rerun
    \/ EditInputs

SpecSession == InitSession /\ [][NextSession]_vars

Spec == Init /\ [][Next]_vars

\* the function raised: the script run ended before any view
LoadFailed == status = "raised" /\ page = "none"

\* the function returned
Loaded == status \in {"ok", "scored", "shown"} \/ (status = "raised" /\ page # "none")

-----------------------------------------------------------------------------
(* Properties *)

Rows == 1..Len(data)

BaseOf(r) == [sku_id |-> r.sku_id, current_slot |-> r.current_slot,
              temp_req |-> r.temp_req, weight_kg |-> r.weight_kg]

\* the rows of the enriched table are the rows of the SKU master, each once
EachSkuOnce ==
    /\ Len(data) = Len(sku_master)
    /\ \E p \in Orderings(Len(data)) : \A i \in Rows : BaseOf(data[i]) = sku_master[p[i]]

UniqueSlotIds ==
    \A i, j \in 1..Len(warehouse) : i # j => warehouse[i].slot_id # warehouse[j].slot_id

HasSlot(id) == \E k \in 1..Len(warehouse) : warehouse[k].slot_id = id

\* C1 as stated: for every SKU master, slot table and order table, the
\* enriched table has exactly the rows of the SKU master, each exactly once.
C1_JoinTotality == Loaded => EachSkuOnce

\* C1 amended: when no two rows of the slot table have the same slot_id, the
\* enriched table has exactly the rows of the SKU master, each exactly once.
C1_JoinTotalityUniqueSlots == (Loaded /\ UniqueSlotIds) => EachSkuOnce

C1_Witness ==
    /\ Loaded /\ UniqueSlotIds /\ Len(sku_master) = 2 /\ Len(warehouse) > 0
    /\ \E i, j \in Rows : /\ HasSlot(data[i].current_slot)
                          /\ ~HasSlot(data[j].current_slot)
                          /\ data[j].pick_count = 0

\* the canonical form of a text value: surrounding blanks removed, lower case
Strip(s) ==
    LET solid == {i \in 1..Len(s) : s[i] # " "}
        lo == CHOOSE i \in solid : \A j \in solid : i <= j
        hi == CHOOSE i \in solid : \A j \in solid : i >= j
    IN  IF solid = {} THEN <<>> ELSE SubSeq(s, lo, hi)

Upper == <<"A", "B", "C", "D", "E", "F", "G", "H", "I", "J", "K", "L", "M",
           "N", "O", "P", "Q", "R", "S", "T", "U", "V", "W", "X", "Y", "Z">>

LowerOf == <<"a", "b", "c", "d", "e", "f", "g", "h", "i", "j", "k", "l", "m",
             "n", "o", "p", "q", "r", "s", "t", "u", "v", "w", "x", "y", "z">>

ToLower(s) == [i \in 1..Len(s) |->
                 IF \E k \in 1..26 : Upper[k] = s[i]
                 THEN LowerOf[CHOOSE k \in 1..26 : Upper[k] = s[i]] ELSE s[i]]

Normalize(s) == ToLower(Strip(s))

Unknown == <<"u", "n", "k", "n", "o", "w", "n">>

\* the current zone of a row as the data model defines it
CurrentZone(r) == IF r.temp_zone = NaN THEN Unknown ELSE r.temp_zone

\* C2: temp_compliant of every row equals the equality of the normalized
\* required temperature and the normalized current zone, so spellings that
\* differ only in blanks or letter case are compliant with each other.
C2_ComplianceNormalized ==
    Loaded => \A i \in Rows :
        data[i].temp_req # NaN =>
            data[i].temp_compliant =
                (Normalize(data[i].temp_req) = Normalize(CurrentZone(data[i])))

\* C3: the current zone of every row is never missing: it is the temp_zone of
\* the slot the SKU is in, or "unknown" when no slot matches.
C3_ZoneNeverMissing ==
    Loaded => \A i \in Rows :
        /\ data[i].temp_zone # NaN
        /\ IF HasSlot(data[i].current_slot)
           THEN \E k \in 1..Len(warehouse) :
                   /\ warehouse[k].slot_id = data[i].current_slot
                   /\ warehouse[k].temp_zone = data[i].temp_zone
           ELSE data[i].temp_zone = Unknown

\* number of order rows of a sku_id
OrderRows(id) == CopiesIn(id, orders)

\* C4: the pick count of every row is the number of order rows of its
\* sku_id, a defined number, 0 for a SKU without orders.
C4_PickCountComplete ==
    Loaded => \A i \in Rows :
        /\ data[i].pick_count \in Nat
        /\ data[i].pick_count = OrderRows(data[i].sku_id)

C4_Witness ==
    /\ Loaded
    /\ \E i, j \in Rows : /\ OrderRows(data[i].sku_id) = 0 /\ data[i].pick_count = 0
                          /\ OrderRows(data[j].sku_id) = 2 /\ data[j].pick_count = 2
    /\ OrderRows(Ghost) > 0

\* severity of a row of the Top-20 table, from the two columns it keeps
ShownSeverity(r) == TempRiskScore(r.temp_req, r.temp_zone)

\* the Top-20 table lists the rows in order of severity, highest first
TopRiskBySeverity ==
    status = "shown" =>
        \A i, j \in 1..Len(top_risk) :
            ShownSeverity(top_risk[i]) > ShownSeverity(top_risk[j]) => i < j

\* C5 as stated: a row of higher severity has a higher priority_score
\* whatever the pick counts, and the Top-20 table lists every row of higher
\* severity before any row of lower severity.
C5_SeverityDominates ==
    /\ Loaded => \A a, b \in Rows :
           data[a].temp_risk_score > data[b].temp_risk_score
               => data[a].priority_score > data[b].priority_score
    /\ TopRiskBySeverity

\* C5 amended: a row of higher severity has a higher priority_score whenever
\* the other row has fewer than 1000 picks more; when every pick count is
\* below 1000 the Top-20 table lists every row of higher severity first.
C5_SeverityDominatesBelow1000 ==
    /\ Loaded => \A a, b \in Rows :
           (/\ data[a].temp_risk_score > data[b].temp_risk_score
            /\ data[b].pick_count < data[a].pick_count + 1000)
               => data[a].priority_score > data[b].priority_score
    /\ (\A i \in Rows : data[i].pick_count < 1000) => TopRiskBySeverity

C5_Witness ==
    /\ status = "shown" /\ Len(top_risk) = 2
    /\ \A i \in Rows : data[i].pick_count < 1000
    /\ ShownSeverity(top_risk[1]) > ShownSeverity(top_risk[2])
    /\ top_risk[1].pick_count = 0 /\ top_risk[2].pick_count = 999

\* severity as the risk scoring rule states it, on normalized values
NormSeverity(req, zone) ==
    IF req = zone THEN 0
    ELSE IF req = Normalize(Frozen) THEN 3
    ELSE IF req = Normalize(Refrigerated) THEN 2
    ELSE IF req = Normalize(Ambient) THEN 1
    ELSE 0

\* C6: temp_risk_score of every row is 3, 2, 1 for a frozen, refrigerated,
\* ambient requirement in another zone and 0 for a compliant row, on the
\* normalized required temperature and zone, an unmatched slot included.
C6_SeverityNormalized ==
    Loaded => \A i \in Rows :
        data[i].temp_req # NaN =>
            data[i].temp_risk_score =
                NormSeverity(Normalize(data[i].temp_req), Normalize(CurrentZone(data[i])))

\* picks of the first i rows of the enriched table, and of all rows
CumPicks(i) == SeqSum([k \in 1..i |-> data[k].pick_count])

TotalPicks == CumPicks(Len(data))

PickDescending == \A i, j \in Rows : i < j => data[i].pick_count >= data[j].pick_count

\* C7: the rows are in descending order of pick count and every row has
\* exactly one class: A when its running cumulative share of all picks is
\* <= 80%, B when it is > 80% and <= 95%, C otherwise.
C7_AbcByCumulativeShare ==
    Loaded =>
        /\ PickDescending
        /\ \A i \in Rows :
             data[i].abc_class =
                IF TotalPicks > 0 /\ CumPicks(i) * 100 <= 80 * TotalPicks THEN "A"
                ELSE IF TotalPicks > 0 /\ CumPicks(i) * 100 <= 95 * TotalPicks THEN "B"
                ELSE "C"

C7_Witness ==
    /\ Loaded /\ Len(data) = 3
    /\ data[1].abc_class = "A" /\ CumPicks(1) * 100 = 80 * TotalPicks
    /\ data[2].abc_class = "B" /\ CumPicks(2) * 100 = 95 * TotalPicks
    /\ data[3].abc_class = "C"

ClassA == {i \in Rows : data[i].abc_class = "A"}

\* C8 as stated: with positive total picks, class A is the smallest prefix
\* of the descending order whose cumulative share is >= 80%; it is not empty
\* and holds at least 80% of the picks.
C8_SmallestPrefixReaching80 ==
    (Loaded /\ TotalPicks > 0) =>
        \E k \in Rows :
            /\ ClassA = 1..k
            /\ CumPicks(k) * 100 >= 80 * TotalPicks
            /\ \A m \in 1..(k - 1) : CumPicks(m) * 100 < 80 * TotalPicks

\* C8 amended: with positive total picks, class A is the longest prefix of
\* the descending order whose cumulative share is <= 80%; it may be empty
\* and holds at most 80% of the picks.
C8_LongestPrefixWithin80 ==
    (Loaded /\ TotalPicks > 0) =>
        \E k \in 0..Len(data) :
            /\ PickDescending
            /\ ClassA = 1..k
            /\ CumPicks(k) * 100 <= 80 * TotalPicks
            /\ k < Len(data) => CumPicks(k + 1) * 100 > 80 * TotalPicks

C8_Witness ==
    /\ Loaded /\ TotalPicks > 0 /\ Len(data) = 3
    /\ ClassA = {1, 2}
    /\ CumPicks(2) * 100 < 80 * TotalPicks

\* C9: the rows are in descending order of pick count, rows of equal pick
\* count in ascending order of sku_id, whatever the row order of the master.
C9_TiesBySkuId ==
    Loaded => \A i, j \in Rows :
        i < j => \/ data[i].pick_count > data[j].pick_count
                 \/ /\ data[i].pick_count = data[j].pick_count
                    /\ SkuRank(data[i].sku_id) <= SkuRank(data[j].sku_id)

NoOrderMatches == \A i \in 1..Len(sku_master) : OrderRows(sku_master[i].sku_id) = 0

C11_UnmatchedNeverCompliant ==
    Loaded => \A i \in Rows :
        /\ data[i].temp_violation = ~data[i].temp_compliant
        /\ ~HasSlot(data[i].current_slot) =>
               (~data[i].temp_compliant /\ data[i].temp_violation)

C11_Witness ==
    /\ Loaded /\ Len(data) = 2
    /\ \E i, j \in Rows :
         /\ ~HasSlot(data[i].current_slot) /\ data[i].temp_req = Ambient
         /\ data[i].temp_violation
         /\ HasSlot(data[j].current_slot) /\ data[j].temp_compliant

\* C12: weight_compliant of a row is true exactly when its slot is matched,
\* its weight is present and the weight is at most the weight limit of the
\* matched slot; an unmatched slot or a missing weight is a weight violation.
C12_WeightCompliance ==
    Loaded => \A i \in Rows :
        /\ data[i].weight_violation = ~data[i].weight_compliant
        /\ data[i].weight_compliant =
              (\E k \in 1..Len(warehouse) :
                  /\ warehouse[k].slot_id = data[i].current_slot
                  /\ warehouse[k].max_weight_kg = data[i].max_weight_kg
                  /\ data[i].weight_kg \in Nat
                  /\ warehouse[k].max_weight_kg \in Nat
                  /\ data[i].weight_kg <= warehouse[k].max_weight_kg)
        /\ (~HasSlot(data[i].current_slot) \/ data[i].weight_kg = NaNNum) =>
               (~data[i].weight_compliant /\ data[i].weight_violation)

C12_Witness ==
    /\ Loaded /\ Len(data) = 2
    /\ \E i, j \in Rows :
         /\ HasSlot(data[i].current_slot) /\ data[i].weight_kg = NaNNum
         /\ data[i].weight_violation
         /\ HasSlot(data[j].current_slot) /\ data[j].weight_kg = 5
         /\ data[j].max_weight_kg = 5 /\ data[j].weight_compliant

\* C13: spoilage_risk of a row is the per-SKU unit 50 when the required
\* temperature is Frozen or Refrigerated and the row is not temperature
\* compliant, and 0 in every other case.
C13_SpoilageRisk ==
    Loaded => \A i \in Rows :
        data[i].spoilage_risk =
            IF data[i].temp_req \in {Frozen, Refrigerated} /\ ~data[i].temp_compliant
            THEN 50 ELSE 0

C13_Witness ==
    /\ Loaded /\ Len(data) = 2
    /\ \E i, j \in Rows :
         /\ data[i].temp_req = Refrigerated /\ data[i].temp_violation
         /\ data[i].spoilage_risk = 50
         /\ data[j].temp_req = Ambient /\ data[j].temp_violation
         /\ data[j].spoilage_risk = 0

\* C14: priority_score of every row is severity * 1000 + pick count, so of
\* two rows of equal severity the one with more picks has the higher score,
\* and Frozen required in an Ambient zone scores 3000 + picks.
C14_PriorityFormula ==
    Loaded =>
        /\ \A i \in Rows :
             /\ data[i].priority_score = data[i].temp_risk_score * 1000 + data[i].pick_count
             /\ (data[i].temp_req = Frozen /\ data[i].temp_zone = Ambient) =>
                    data[i].priority_score = 3000 + data[i].pick_count
        /\ \A a, b \in Rows :
             (/\ data[a].temp_risk_score = data[b].temp_risk_score
              /\ data[a].pick_count > data[b].pick_count)
                 => data[a].priority_score > data[b].priority_score

C14_Witness ==
    /\ Loaded /\ Len(data) = 2
    /\ data[1].temp_req = Frozen /\ data[1].temp_zone = Ambient
    /\ data[1].pick_count = 999 /\ data[1].priority_score = 3999
    /\ data[2].temp_risk_score = 3 /\ data[2].pick_count = 0

\* C20 as stated: in every row the severity is 0 exactly when the row is
\* temperature compliant, so every temperature violation, whatever its
\* required temperature, has priority_score >= 1000.
C20_SeverityIffViolation ==
    Loaded => \A i \in Rows :
        /\ (data[i].temp_risk_score = 0) = data[i].temp_compliant
        /\ data[i].temp_violation => data[i].priority_score >= 1000

\* C20 amended: the severity is 0 in every compliant row and positive
\* exactly in the violations whose required temperature is spelled Frozen,
\* Refrigerated or Ambient; those have priority_score >= 1000 and rank above
\* every compliant row with fewer than 1000 picks; a violation with any other
\* required temperature has severity 0 and priority_score = pick count.
C20_SeverityOfKnownRequirements ==
    Loaded => \A i \in Rows :
        /\ data[i].temp_compliant => data[i].temp_risk_score = 0
        /\ (data[i].temp_risk_score > 0) =
              (data[i].temp_violation /\ data[i].temp_req \in {Frozen, Refrigerated, Ambient})
        /\ data[i].temp_risk_score > 0 =>
              /\ data[i].priority_score >= 1000
              /\ \A j \in Rows :
                    (data[j].temp_compliant /\ data[j].pick_count < 1000)
                        => data[i].priority_score > data[j].priority_score
        /\ (data[i].temp_violation /\ data[i].temp_req \notin {Frozen, Refrigerated, Ambient})
              => data[i].priority_score = data[i].pick_count

C20_Witness ==
    /\ Loaded /\ Len(data) = 2
    /\ \E i, j \in Rows :
         /\ data[i].temp_req = Chilled /\ data[i].temp_violation
         /\ data[i].temp_risk_score = 0
         /\ data[j].temp_req = Frozen /\ data[j].temp_violation
         /\ data[j].temp_risk_score = 3

\* C16: once the three files are read with the columns the pipeline uses, the
\* enrichment steps never raise: whatever the gaps in the rows (unmatched or
\* missing slots, no orders, missing weights), the call returns a table.
C16_EnrichmentNeverRaises ==
    (status # "init" /\ ~ReadCsvRaises(files) /\ ~KeyErrorRaises(files)) => Loaded

\* C17 as stated: a source that cannot be read, a SKU master without sku_id,
\* current_slot or the required temperature, or a slot table without slot_id
\* or temp_zone fails the run with nothing produced, cached or shown; a SKU
\* master with exactly those three columns is accepted.
C17_RequiredColumnsSuffice ==
    status # "init" =>
        /\ (\/ ReadCsvRaises(files)
            \/ ~({"sku_id", "current_slot", "temp_req"} \subseteq files.sku_cols)
            \/ ~({"slot_id", "temp_zone"} \subseteq files.warehouse_cols))
              => (LoadFailed /\ data = <<>> /\ ~cache.hit /\ top_risk = <<>>)
        /\ (/\ files.readable = FileNames
            /\ files.sku_cols = {"sku_id", "current_slot", "temp_req"}
            /\ files.warehouse_cols = WarehouseColsRead
            /\ files.orders_cols = OrdersColsRead)
              => Loaded

\* C17 amended: on a run that executes the function body, a source that
\* cannot be read or that lacks any column the body reads (weight_kg of the
\* SKU master, max_weight_kg and aisle_id of the slot table, order_timestamp
\* and sku_id of the orders included) fails the run with nothing produced,
\* cached or shown; a SKU master with exactly sku_id, current_slot and the
\* required temperature is rejected, one that adds weight_kg is loaded.
C17_ReadColumnsRequired ==
    status # "init" =>
        /\ (\/ files.readable # FileNames
            \/ ~({"sku_id", "current_slot", "temp_req", "weight_kg"} \subseteq files.sku_cols)
            \/ ~({"slot_id", "temp_zone", "max_weight_kg", "aisle_id"}
                     \subseteq files.warehouse_cols)
            \/ ~({"order_timestamp", "sku_id"} \subseteq files.orders_cols))
              => (LoadFailed /\ data = <<>> /\ ~cache.hit /\ top_risk = <<>>)
        /\ (/\ files.readable = FileNames
            /\ files.sku_cols = {"sku_id", "current_slot", "temp_req", "weight_kg"}
            /\ files.warehouse_cols = WarehouseColsRead
            /\ files.orders_cols = OrdersColsRead)
              => (Loaded /\ cache.hit /\ Len(data) = Len(sku_master))

C17_Witness ==
    /\ LoadFailed /\ ~cache.hit
    /\ files.readable = FileNames
    /\ files.sku_cols = {"sku_id", "current_slot", "temp_req"}
    /\ files.warehouse_cols = WarehouseColsRead
    /\ files.orders_cols = OrdersColsRead

\* C18: at every script run the table the views are about to read is the
\* enrichment of the current contents of the three input files: a change
\* of a file between two runs is followed by a recomputation.
C18_TableOfCurrentInputs ==
    status \in {"ok", "scored"} =>
        /\ ~LoadRaises(files, sku_master, warehouse)
        /\ data \in EnrichOutcomes(sku_master, warehouse, orders)

\* C19: once load_comprehensive_data has returned, calculate_chaos_score and
\* each of the six views leave the enriched table and the cached value as
\* they are, in every run of every session.
C19_TableNeverMutated ==
    [][(status \in {"ok", "scored"}) => (data' = data /\ cache' = cache)]_vars

C19_Witness ==
    /\ status = "shown" /\ page = "Command Center"
    /\ Len(data) = 2 /\ data = cache.data
    /\ chaos_score = ChaosScore(data)
    /\ top_risk[1].sku_id = data[2].sku_id

\* position of a class in the order A before B before C
ClassRank(c) == IF c = "A" THEN 1 ELSE IF c = "B" THEN 2 ELSE 3

\* C21: ABC classes are monotone in pick count: a row with strictly more
\* picks than another never has a worse class, so no class-B or class-C row
\* has strictly more picks than a class-A row.
C21_AbcMonotoneInPicks ==
    Loaded => \A i, j \in Rows :
        data[i].pick_count > data[j].pick_count =>
            ClassRank(data[i].abc_class) <= ClassRank(data[j].abc_class)

C21_Witness ==
    /\ Loaded /\ Len(data) = 3
    /\ data[1].pick_count > data[2].pick_count
    /\ data[2].pick_count = data[3].pick_count
    /\ data[1].abc_class = "A" /\ data[2].abc_class = "B" /\ data[3].abc_class = "C"

\* C22: for every table load_comprehensive_data returns, the chaos score is
\* computed and whichever of the six views is selected is rendered without
\* an exception: a script run ends in an exception only when the loader
\* raised, also with an empty SKU master, with no class-A SKU and with no
\* order in the peak hour.
C22_ViewsNeverRaise == status = "raised" => page = "none"

====
